---------------------------- MODULE Spec2Model ----------------------------
(***************************************************************************)
(* ABB Aurora inverter bridge (src/src/main.cpp): the bootstrap sequence   *)
(* of setup(), the main loop() with its two epoch-aligned windows, the     *)
(* stats snapshot built by inverterUpdateStatus(), the PVOutput report     *)
(* sent by pvOutputSend(), the MQTT publishes and the local web handler.   *)
(*                                                                         *)
(* Collaborators (device bus, WiFi, NTP, broker, HTTP) are the             *)
(* environment: every result they return is an input drawn from a small    *)
(* set.  Epoch time is the NTP client's, in seconds; it advances by Tick.  *)
(* Floats are carried as thousandths (an integer) or NaN.                  *)
(***************************************************************************)
EXTENDS Integers, Sequences, FiniteSets, TLC

VARIABLES
    pc,                        \* position of the single control thread
    delayLeft,                 \* runLoopDelay: milliseconds still to wait
    delayRet,                  \* runLoopDelay: where its caller continues
    mqtt,                      \* pubSubClient.connected()
    now,                       \* getEpochTime()
    staticsInit,               \* loop()'s function-local statics are initialised
    nextUpdateTime,            \* static in loop(): energy-report deadline
    nextStatsTime,             \* static in loop(): stats deadline
    pvOutputUpdatePending,     \* local of loop(): the pending-report flag
    energyToday,               \* global: last good today's energy
    energyTodayLastUpdate,     \* global: its sample time
    energyTodayLastPublished,  \* global: time of the last confirmed report
    inverterStatus,            \* global: the current snapshot (JSON members)
    webResp,                   \* the response sent by the step just taken
    mqttOut,                   \* pubSubClient.publish calls of this pass
    events,                    \* steps and device transactions of this pass
    lastReads,                 \* results of this pass's stats reads
    lastProbe,                 \* result of this pass's liveness probe
    lastSend,                  \* outcome of the last pass's send step
    bootEpoch,                 \* epoch read when the statics were initialised
    firstPass,                 \* the first pass of loop() is running
    starting,                  \* setup(): the countdown's loop variable i
    wait,                      \* the timed wait entered last, and whether it pumped
    bootSeen,                  \* setup(): what has been observed, in order
    lastEnergyRead             \* result of this pass's today's-energy read

vars == <<pc, delayLeft, delayRet, mqtt, now, staticsInit, nextUpdateTime,
          nextStatsTime, pvOutputUpdatePending, energyToday,
          energyTodayLastUpdate, energyTodayLastPublished, inverterStatus,
          webResp, mqttOut, events, lastReads, lastProbe, lastSend,
          bootEpoch, firstPass, starting, wait, bootSeen, lastEnergyRead>>

delayVars == <<delayLeft, delayRet>>

schedVars == <<staticsInit, nextUpdateTime, nextStatsTime, bootEpoch, firstPass>>

energyVars == <<energyToday, energyTodayLastUpdate, energyTodayLastPublished>>

passVars == <<mqttOut, events, lastReads, lastProbe, lastEnergyRead>>

---------------------------------------------------------------------------
(* Program constants *)

NTP_OFFSET == 0

UPDATE_PERIOD_PVOUTPUT == 300

UPDATE_PERIOD_STATS == 30

DelayResolution == 10

StartupDelayMs == 1000

StartupCountdown == 3

NtpRetryMs == 500

WifiRetryMs == 500

MqttRetryMs == 60000

SetupSettleMs == 2000

SendRetryMs == 1000

HTTP_OK == 200

(* Bounds of the model *)

MaxEpoch == 1500

BootEpochs == {1000}

TickSteps == {250, 500}

HandlerMillis == {990}

EnergyValues == {0, 4200}

HttpCodes == {-1, 200, 500}

---------------------------------------------------------------------------
(* Floats: a value in thousandths, or NaN *)

NAN == [nan |-> TRUE, milli |-> 0]

F(m) == [nan |-> FALSE, milli |-> m]

isnan(v) == v.nan

FAdd(a, b) == IF a.nan \/ b.nan THEN NAN ELSE F(a.milli + b.milli)

(* snprintf "%.2f": rounded to hundredths, two fractional digits *)
Printf2f(m) ==
    LET a  == IF m < 0 THEN 0 - m ELSE m
        c  == (a + 5) \div 10
        ip == c \div 100
        fp == c % 100
    IN  (IF m < 0 THEN "-" ELSE "") \o ToString(ip) \o "."
            \o (IF fp < 10 THEN "0" ELSE "") \o ToString(fp)

_formatFloat(val) == IF isnan(val) THEN "NaN" ELSE Printf2f(val.milli)

(* snprintf "%lu" *)
PrintfLu(n) == ToString(n)

toLocalTime(t) == t + NTP_OFFSET

fromLocalTime(t) == t - NTP_OFFSET

getEpochTime == fromLocalTime(now + NTP_OFFSET)

---------------------------------------------------------------------------
(* MQTT topics and messages *)

mqttTopicName == "abb"

mqttTopic(kind) == "tele/" \o mqttTopicName \o "/" \o kind

mqttTopicLwt == "LWT"

mqttTopicStat == "STAT"

mqttTopicPower == "POWER"

mqttTopicLog == "LOG"

mqttMessageOnline == "Online"

mqttConnected == mqtt

(* mqttSend with waitForConnection left at its default, false: the one   *)
(* pubSubClient.publish call it makes                                     *)
mqttSend(topic_fmt, msg) == <<mqttTopic(topic_fmt), msg>>

mqttLog_unguarded(msg) == << <<mqttTopic(mqttTopicLog), msg>> >>

(* mqttLog: publishes the formatted line only if the broker is connected *)
mqttLog(msg) == IF mqttConnected THEN << <<mqttTopic(mqttTopicLog), msg>> >> ELSE << >>

---------------------------------------------------------------------------
(* Device transactions: each returns a success flag and a value *)

Rd(ok, v) == [ok |-> ok, v |-> v]

ReadKeys == {"eToday", "eTotal", "pIn1", "pIn2", "vGrid", "fGrid", "tInv", "tBoost"}

(* the values the device holds in a cycle (floats in thousandths) *)
VariantA == [eToday |-> 0, pIn1 |-> 812344]

VariantB == [eToday |-> 4200, pIn1 |-> 1500006]

Reading(fail, var) ==
    [ eToday |-> Rd("eToday" \notin fail, var.eToday),
      eTotal |-> Rd("eTotal" \notin fail, 9000000),
      pIn1   |-> Rd("pIn1" \notin fail, var.pIn1),
      pIn2   |-> Rd("pIn2" \notin fail, 640128),
      vGrid  |-> Rd("vGrid" \notin fail, 239871),
      fGrid  |-> Rd("fGrid" \notin fail, 49998),
      tInv   |-> Rd("tInv" \notin fail, 41253),
      tBoost |-> Rd("tBoost" \notin fail, 0 - 5496) ]

(* the stats cycles tried: which sub-reads fail, and what the device holds *)
StatsReadings ==
    { Reading({}, VariantA), Reading({}, VariantB), Reading(ReadKeys, VariantB),
      Reading({"eToday", "pIn1", "vGrid", "tInv"}, VariantA),
      Reading({"eTotal", "pIn2", "fGrid", "tBoost"}, VariantB) }

NoReads == [none |-> TRUE]

(* inverterReadDSP: NaN when the transaction failed *)
inverterReadDSP(r) == IF ~r.ok THEN NAN ELSE F(r.v)

(* the cumulated-energy reads of inverterUpdateStatus: 0 stays when the read failed *)
EnergyOrZero(r) == IF ~r.ok THEN 0 ELSE r.v

TotalPower_partial(pIn1, pIn2) ==
    IF isnan(pIn1) /\ isnan(pIn2) THEN NAN
    ELSE F((IF isnan(pIn1) THEN 0 ELSE pIn1.milli) + (IF isnan(pIn2) THEN 0 ELSE pIn2.milli))

(* pIn: the sum only if both string powers are numbers *)
TotalPower(pIn1, pIn2) ==
    IF ~isnan(pIn1) /\ ~isnan(pIn2) THEN FAdd(pIn1, pIn2) ELSE NAN

(* pIn of a cycle *)
StatsPIn(rd) == TotalPower(inverterReadDSP(rd.pIn1), inverterReadDSP(rd.pIn2))

(* the transactions an online stats cycle issues, in order *)
StatsReadOrder ==
    << "readCumulatedEnergy(DAILY)", "readCumulatedEnergy(LIFETIME)",
       "readDSP(PIN1)", "readDSP(PIN2)", "readDSP(GRID_VOLTAGE)",
       "readDSP(FREQUENCY)", "readDSP(INVERTER_TEMPERATURE)",
       "readDSP(BOOSTER_TEMPERATURE)" >>

(* the order of the read results *)
StatsKeyOrder == <<"eToday", "eTotal", "pIn1", "pIn2", "vGrid", "fGrid", "tInv", "tBoost">>

StatsIssued_abortOnFail(rd) ==
    LET failed == {i \in 1..8 : ~rd[StatsKeyOrder[i]].ok}
        upTo   == IF failed = {} THEN 8
                  ELSE CHOOSE i \in failed : \A j \in failed : i <= j
    IN  SubSeq(StatsReadOrder, 1, upTo)

(* the transactions an online cycle issues, given what each of them returns *)
StatsIssued(rd) == StatsReadOrder

(* the snprintf into inverterStatus: the JSON members, in order *)
FormatStatus(rd) ==
    LET pIn1 == inverterReadDSP(rd.pIn1)
        pIn2 == inverterReadDSP(rd.pIn2)
        pIn  == StatsPIn(rd)
    IN  << <<"last_update", PrintfLu(getEpochTime)>>,
           <<"energy_today", PrintfLu(EnergyOrZero(rd.eToday))>>,
           <<"energy_total", PrintfLu(EnergyOrZero(rd.eTotal))>>,
           <<"last_pvoutput_read", PrintfLu(energyTodayLastUpdate)>>,
           <<"last_pvoutput_sent", PrintfLu(energyTodayLastPublished)>>,
           <<"p_in", _formatFloat(pIn)>>,
           <<"p_in_1", _formatFloat(pIn1)>>,
           <<"p_in_2", _formatFloat(pIn2)>>,
           <<"grid_voltage", _formatFloat(inverterReadDSP(rd.vGrid))>>,
           <<"grid_frequency", _formatFloat(inverterReadDSP(rd.fGrid))>>,
           <<"temp_inverter", _formatFloat(inverterReadDSP(rd.tInv))>>,
           <<"temp_booster", _formatFloat(inverterReadDSP(rd.tBoost))>> >>

(* the text of a snapshot: "{}" or the JSON object *)
RECURSIVE JsonMembers(_)
JsonMembers(st) ==
    IF st = << >> THEN ""
    ELSE "\"" \o st[1][1] \o "\": " \o st[1][2]
            \o (IF Len(st) > 1 THEN ", " ELSE "") \o JsonMembers(Tail(st))

JsonText(st) == "{" \o JsonMembers(st) \o "}"

(* a member of a snapshot, "" when absent *)
RECURSIVE Member(_, _)
Member(st, key) ==
    IF st = << >> THEN ""
    ELSE IF st[1][1] = key THEN st[1][2] ELSE Member(Tail(st), key)

StatsPublishes_unguarded(status, pIn) ==
    (IF ~isnan(pIn) THEN << mqttSend(mqttTopicPower, _formatFloat(pIn)) >> ELSE << >>)
        \o << mqttSend(mqttTopicStat, JsonText(status)) >>

StatsPublishes_statFirst(status, pIn) ==
    IF mqttConnected
    THEN << mqttSend(mqttTopicStat, JsonText(status)) >>
            \o (IF ~isnan(pIn) THEN << mqttSend(mqttTopicPower, _formatFloat(pIn)) >> ELSE << >>)
    ELSE << >>

(* the publishes that end inverterUpdateStatus *)
StatsPublishes(status, pIn) ==
    IF mqttConnected
    THEN (IF ~isnan(pIn) THEN << mqttSend(mqttTopicPower, _formatFloat(pIn)) >> ELSE << >>)
            \o << mqttSend(mqttTopicStat, JsonText(status)) >>
    ELSE << >>

inverterUpdateStatus_noProbe(online, rd) ==
    LET st == FormatStatus(rd)
    IN  [ status |-> st, out |-> StatsPublishes(st, StatsPIn(rd)),
          issued |-> <<"readState">> \o StatsIssued(rd), got |-> rd,
          energyToday |-> energyToday ]

inverterUpdateStatus_noShadow(online, rd) ==
    IF ~online
    THEN [ status |-> inverterStatus, out |-> << >>,
           issued |-> <<"readState">>, got |-> NoReads,
           energyToday |-> 0 ]
    ELSE LET st == FormatStatus(rd)
         IN  [ status |-> st, out |-> StatsPublishes(st, StatsPIn(rd)),
               issued |-> <<"readState">> \o StatsIssued(rd), got |-> rd,
               energyToday |-> EnergyOrZero(rd.eToday) ]

(* inverterUpdateStatus: what the cycle leaves behind.  Its energyToday is *)
(* a local that shadows the global, which keeps its value.                *)
inverterUpdateStatus(online, rd) ==
    IF ~online
    THEN [ status |-> inverterStatus, out |-> << >>,
           issued |-> <<"readState">>, got |-> NoReads,
           energyToday |-> energyToday ]
    ELSE LET st == FormatStatus(rd)
         IN  [ status |-> st, out |-> StatsPublishes(st, StatsPIn(rd)),
               issued |-> <<"readState">> \o StatsIssued(rd), got |-> rd,
               energyToday |-> energyToday ]

---------------------------------------------------------------------------
(* Local web server *)

NoResp == [method |-> "", code |-> 0, type |-> "", body |-> ""]

HTTP_GET == "GET"

(* webServer.send(code, type, body), answering the request of that method *)
webServerSend(method, code, type, body) ==
    [method |-> method, code |-> code, type |-> type, body |-> body]

webHandle404(method) == webServerSend(method, 404, "text/html", "Not Found\r\n")

webHandleRoot_anyMethod(method) ==
    webServerSend(method, 200, "application/json", JsonText(inverterStatus))

webHandleRoot(method) ==
    IF method # HTTP_GET THEN webHandle404(method)
    ELSE webServerSend(method, 200, "application/json", JsonText(inverterStatus))

---------------------------------------------------------------------------
(* PVOutput report *)

Pad2(n) == (IF n < 10 THEN "0" ELSE "") \o ToString(n)

Pad4(n) == (IF n < 1000 THEN "0" ELSE "") \o (IF n < 100 THEN "0" ELSE "")
               \o (IF n < 10 THEN "0" ELSE "") \o ToString(n)

(* TimeLib's year(), month(), day() of an epoch time *)
CivilDate(t) ==
    LET z   == (t \div 86400) + 719468
        era == z \div 146097
        doe == z - era * 146097
        yoe == (doe - doe \div 1460 + doe \div 36524 - doe \div 146096) \div 365
        doy == doe - (365 * yoe + yoe \div 4 - yoe \div 100)
        mp  == (5 * doy + 2) \div 153
        d   == doy - (153 * mp + 2) \div 5 + 1
        m   == IF mp < 10 THEN mp + 3 ELSE mp - 9
        y   == yoe + era * 400 + (IF m <= 2 THEN 1 ELSE 0)
    IN  [year |-> y, month |-> m, day |-> d]

(* post_data: "d=%04d%02d%02d&t=%02d:%02d&v1=%lu&c1=0" of the stored reading *)
PostData ==
    LET timeLocal == toLocalTime(energyTodayLastUpdate)
        c == CivilDate(timeLocal)
    IN  "d=" \o Pad4(c.year) \o Pad2(c.month) \o Pad2(c.day)
            \o "&t=" \o Pad2((timeLocal % 86400) \div 3600) \o ":"
            \o Pad2((timeLocal % 3600) \div 60)
            \o "&v1=" \o PrintfLu(energyToday) \o "&c1=0"

(* what the HTTP client can answer: begin() refused, or the POST's code *)
HttpOutcomes == {[begin |-> FALSE, code |-> 0]} \cup {[begin |-> TRUE, code |-> c] : c \in HttpCodes}

HttpSuccess_any(httpCode) == httpCode > 0

(* the test that ends pvOutputSend *)
HttpSuccess(httpCode) == httpCode = HTTP_OK

(* pvOutputSend: its return value, the timestamp it leaves, its diagnostics *)
pvOutputSend(http) ==
    IF ~http.begin
    THEN [ ret |-> FALSE, published |-> energyTodayLastPublished, log |-> << >>,
           issued |-> << >> ]
    ELSE [ ret |-> HttpSuccess(http.code),
           issued |-> <<"mqttLog">>,
           published |-> IF HttpSuccess(http.code) THEN getEpochTime
                         ELSE energyTodayLastPublished,
           log |-> IF http.code > 0
                   THEN mqttLog("PV Output update (" \o PostData \o ") returned "
                                    \o ToString(http.code))
                   ELSE mqttLog("PV Output update (" \o PostData \o ") error "
                                    \o ToString(http.code)) ]

NoSend == [kind |-> "none", begin |-> FALSE, code |-> 0, ret |-> FALSE, post |-> ""]

---------------------------------------------------------------------------
(* Scheduler arithmetic of loop() *)

InitDeadline_fromNow(epoch, period) == epoch + period

(* the initialiser of the two statics *)
InitDeadline(epoch, period) == (epoch \div period) * period + period

IsDue(epoch, deadline) == epoch >= deadline

Advance_reset(deadline, period) == getEpochTime + period

Advance_stuck(deadline, period) == deadline

Advance(deadline, period) == deadline + period

StepAfter_statsFirst(step) ==
    CASE step = "loop_begin" -> "stats"
      [] step = "stats"      -> "energy"
      [] step = "energy"     -> "send"
      [] step = "send"       -> "loop_begin"

(* the order of the statements of loop() *)
StepAfter(step) ==
    CASE step = "loop_begin" -> "energy"
      [] step = "energy"     -> "stats"
      [] step = "stats"      -> "send"
      [] step = "send"       -> "loop_begin"

---------------------------------------------------------------------------
(* Energy-report cycle *)

EnergyReads == {Rd(FALSE, 7777)} \cup {Rd(TRUE, v) : v \in EnergyValues}

(* inverterSetTime: reads the device clock, then writes it whatever the read gave *)
inverterSetTime(readOk, writeOk) ==
    [ ret |-> writeOk, issued |-> <<"readTimeDate", "writeTimeDate">> ]

inverterReadTodayEnergy_storeAlways(r) ==
    [ ret |-> r.ok, energy |-> r.v, at |-> getEpochTime,
      log |-> << >>, issued |-> <<"readCumulatedEnergy(DAILY)">> ]

(* inverterReadTodayEnergy: the globals it leaves, its return value, its *)
(* diagnostic                                                            *)
inverterReadTodayEnergy(r) ==
    IF ~r.ok
    THEN [ ret |-> FALSE, energy |-> energyToday, at |-> energyTodayLastUpdate,
           log |-> << >>, issued |-> <<"readCumulatedEnergy(DAILY)">> ]
    ELSE [ ret |-> TRUE, energy |-> r.v, at |-> getEpochTime,
           log |-> mqttLog("updated Today's energy: " \o PrintfLu(getEpochTime)
                               \o " (" \o PrintfLu(toLocalTime(getEpochTime)) \o ") = "
                               \o PrintfLu(r.v)),
           issued |-> <<"readCumulatedEnergy(DAILY)", "mqttLog">> ]

---------------------------------------------------------------------------
(* Initial state: the globals as constructed, setup() about to start *)

NoWait == [how |-> "none", ms |-> 0, pumped |-> FALSE]

NoEnergyRead == [none |-> TRUE]

Init ==
    /\ pc = "setup"
    /\ delayLeft = 0
    /\ delayRet = ""
    /\ mqtt = FALSE
    /\ now = 0
    /\ staticsInit = FALSE
    /\ nextUpdateTime = 0
    /\ nextStatsTime = 0
    /\ pvOutputUpdatePending = FALSE
    /\ energyToday = 0
    /\ energyTodayLastUpdate = 0
    /\ energyTodayLastPublished = 0
    /\ inverterStatus = << >>
    /\ webResp = NoResp
    /\ mqttOut = << >>
    /\ events = << >>
    /\ lastReads = NoReads
    /\ lastProbe = "none"
    /\ lastSend = NoSend
    /\ bootEpoch = 0
    /\ firstPass = FALSE
    /\ starting = 0
    /\ wait = NoWait
    /\ bootSeen = << >>
    /\ lastEnergyRead = NoEnergyRead

(* webServer.begin() has run *)
ServerBegun ==
    /\ pc \notin {"setup", "setup_starting", "setup_wifi", "setup_ntp"}
    /\ ~(pc = "delay" /\ delayRet = "setup_wifi")

(* what may wait in the web server when the handlers run *)
WebRequests == {"none", "GET", "POST"}

(* runLoopHandlers: the web server answers the request that waits, if any *)
runLoopHandlers ==
    \E req \in WebRequests :
        webResp' = (IF req = "none" \/ ~ServerBegun THEN NoResp ELSE webHandleRoot(req))

(* delay(ms): the thread sleeps, nothing else runs *)
delay(ms) == wait' = [how |-> "delay", ms |-> ms, pumped |-> FALSE]

(* runLoopDelay(delayTime), entered *)
runLoopDelay(delayTime, ret) ==
    /\ pc' = "delay"
    /\ delayLeft' = delayTime
    /\ delayRet' = ret
    /\ wait' = [how |-> "runLoopDelay", ms |-> delayTime, pumped |-> FALSE]

RunLoopDelayStep_noPump ==
    /\ pc = "delay"
    /\ delayLeft > 0
    /\ \E h \in HandlerMillis :
         delayLeft' = (IF delayLeft > h + DelayResolution
                       THEN delayLeft - (h + DelayResolution) ELSE 0)
    /\ webResp' = NoResp
    /\ UNCHANGED <<pc, delayRet, mqtt, now, schedVars, pvOutputUpdatePending,
                   energyVars, inverterStatus, passVars, lastSend, starting,
                   wait, bootSeen>>

(* one iteration of runLoopDelay's loop: the handlers, then delay(delayResolution) *)
RunLoopDelayStep ==
    /\ pc = "delay"
    /\ delayLeft > 0
    /\ \E h \in HandlerMillis :
         delayLeft' = (IF delayLeft > h + DelayResolution
                       THEN delayLeft - (h + DelayResolution) ELSE 0)
    /\ runLoopHandlers
    /\ wait' = [wait EXCEPT !.pumped = TRUE]
    /\ UNCHANGED <<pc, delayRet, mqtt, now, schedVars, pvOutputUpdatePending,
                   energyVars, inverterStatus, passVars, lastSend, starting,
                   bootSeen>>

RunLoopDelayReturn ==
    /\ pc = "delay"
    /\ delayLeft = 0
    /\ pc' = delayRet
    /\ delayRet' = ""
    /\ webResp' = NoResp
    /\ UNCHANGED <<delayLeft, mqtt, now, schedVars, pvOutputUpdatePending,
                   energyVars, inverterStatus, passVars, lastSend, starting,
                   wait, bootSeen>>

---------------------------------------------------------------------------
(* setup() *)

(* the first delay(1000); the countdown's i is set to 3 *)
SetupBegin ==
    /\ pc = "setup"
    /\ delay(StartupDelayMs)
    /\ starting' = StartupCountdown
    /\ pc' = "setup_starting"
    /\ UNCHANGED <<delayVars, mqtt, now, schedVars, pvOutputUpdatePending, energyVars,
                   inverterStatus, webResp, passVars, lastSend, bootSeen>>

(* one test of the countdown's condition: a delay(1000), or on to WiFi.begin *)
SetupStarting ==
    /\ pc = "setup_starting"
    /\ IF starting > 0
       THEN /\ delay(StartupDelayMs)
            /\ starting' = starting - 1
            /\ UNCHANGED pc
       ELSE /\ pc' = "setup_wifi"
            /\ wait' = NoWait
            /\ UNCHANGED starting
    /\ UNCHANGED <<delayVars, mqtt, now, schedVars, pvOutputUpdatePending, energyVars,
                   inverterStatus, webResp, passVars, lastSend, bootSeen>>

WaitForWifi_once ==
    /\ pc = "setup_wifi"
    /\ \E wifiConnected \in BOOLEAN :
         /\ pc' = "setup_ntp"
         /\ bootSeen' = (IF wifiConnected THEN Append(bootSeen, "WL_CONNECTED")
                         ELSE bootSeen)
    /\ wait' = NoWait
    /\ webResp' = NoResp
    /\ UNCHANGED <<delayVars, mqtt, now, schedVars, pvOutputUpdatePending, energyVars,
                   inverterStatus, passVars, lastSend, starting>>

(* waitForWifi: one test of its while condition *)
WaitForWifi ==
    /\ pc = "setup_wifi"
    /\ \E wifiConnected \in BOOLEAN :
         IF wifiConnected
         THEN /\ pc' = "setup_ntp"
              /\ wait' = NoWait
              /\ bootSeen' = Append(bootSeen, "WL_CONNECTED")
              /\ UNCHANGED delayVars
         ELSE /\ runLoopDelay(WifiRetryMs, "setup_wifi")
              /\ UNCHANGED bootSeen
    /\ webResp' = NoResp
    /\ UNCHANGED <<mqtt, now, schedVars, pvOutputUpdatePending, energyVars,
                   inverterStatus, passVars, lastSend, starting>>

(* timeClient.forceUpdate(): on success the clock is set and the web server *)
(* begins; on failure a delay(500) and the next attempt                     *)
NtpForceUpdate ==
    /\ pc = "setup_ntp"
    /\ \E ok \in BOOLEAN :
         IF ok
         THEN /\ \E e \in BootEpochs : now' = e
              /\ pc' = "setup_mqtt"
              /\ wait' = NoWait
              /\ bootSeen' = Append(bootSeen, "forceUpdate")
         ELSE /\ delay(NtpRetryMs)
              /\ UNCHANGED <<now, pc, bootSeen>>
    /\ UNCHANGED <<delayVars, mqtt, schedVars, pvOutputUpdatePending, energyVars,
                   inverterStatus, webResp, passVars, lastSend, starting>>

(* mqttConnectCheck: one test of its while condition, and one connect attempt *)
MqttConnectCheck ==
    /\ pc = "setup_mqtt"
    /\ IF mqttConnected
       THEN /\ runLoopDelay(SetupSettleMs, "loop_begin")
            /\ bootSeen' = Append(bootSeen, "mqttConnected")
            /\ UNCHANGED <<mqtt, mqttOut, events>>
       ELSE \E ok \in BOOLEAN :
              IF ok
              THEN /\ mqtt' = TRUE
                   /\ mqttOut' = << <<mqttTopic(mqttTopicLwt), mqttMessageOnline>> >>
                   /\ events' = <<"pubSubClient.connect">>
                   /\ wait' = NoWait
                   /\ UNCHANGED <<pc, delayVars, bootSeen>>
              ELSE /\ runLoopDelay(MqttRetryMs, "setup_mqtt")
                   /\ events' = <<"pubSubClient.connect">>
                   /\ UNCHANGED <<mqtt, mqttOut, bootSeen>>
    /\ webResp' = NoResp
    /\ UNCHANGED <<now, schedVars, pvOutputUpdatePending, energyVars,
                   inverterStatus, lastReads, lastProbe, lastEnergyRead, lastSend,
                   starting>>

---------------------------------------------------------------------------
(* loop() *)

(* entry of a pass: the statics (first pass only), the local flag, the handlers *)
LoopBegin ==
    /\ pc = "loop_begin"
    /\ IF ~staticsInit
       THEN /\ nextUpdateTime' = InitDeadline(getEpochTime, UPDATE_PERIOD_PVOUTPUT)
            /\ nextStatsTime' = InitDeadline(getEpochTime, UPDATE_PERIOD_STATS)
            /\ bootEpoch' = getEpochTime
            /\ staticsInit' = TRUE
            /\ firstPass' = TRUE
       ELSE /\ UNCHANGED <<nextUpdateTime, nextStatsTime, bootEpoch, staticsInit>>
            /\ firstPass' = FALSE
    /\ pvOutputUpdatePending' = FALSE
    /\ runLoopHandlers
    /\ events' = <<"runLoopHandlers">>
    /\ mqttOut' = << >>
    /\ lastReads' = NoReads
    /\ lastProbe' = "none"
    /\ lastEnergyRead' = NoEnergyRead
    /\ lastSend' = NoSend
    /\ wait' = NoWait
    /\ pc' = StepAfter("loop_begin")
    /\ UNCHANGED <<delayVars, mqtt, now, energyVars, inverterStatus, starting, bootSeen>>

(* the energy-report window *)
EnergyStep ==
    /\ pc = "energy"
    /\ IF IsDue(getEpochTime, nextUpdateTime)
       THEN \E readOk \in BOOLEAN, writeOk \in BOOLEAN, r \in EnergyReads :
              LET st == inverterSetTime(readOk, writeOk)
                  e  == inverterReadTodayEnergy(r)
              IN  /\ energyToday' = e.energy
                  /\ energyTodayLastUpdate' = e.at
                  /\ pvOutputUpdatePending' = (IF e.ret THEN TRUE ELSE pvOutputUpdatePending)
                  /\ mqttOut' = mqttOut \o e.log
                  /\ lastEnergyRead' = r
                  /\ nextUpdateTime' = Advance(nextUpdateTime, UPDATE_PERIOD_PVOUTPUT)
                  /\ events' = events \o <<"energyWindow", "inverterSetTime">> \o st.issued
                                      \o <<"inverterReadTodayEnergy">> \o e.issued
       ELSE /\ events' = events \o <<"energyWindow">>
            /\ UNCHANGED <<energyToday, energyTodayLastUpdate, pvOutputUpdatePending,
                           mqttOut, nextUpdateTime, lastEnergyRead>>
    /\ pc' = StepAfter("energy")
    /\ webResp' = NoResp
    /\ wait' = NoWait
    /\ UNCHANGED <<delayVars, mqtt, now, staticsInit, nextStatsTime, bootEpoch, firstPass,
                   energyTodayLastPublished, inverterStatus, lastReads, lastProbe,
                   lastSend, starting, bootSeen>>

(* the stats window *)
StatsStep ==
    /\ pc = "stats"
    /\ IF IsDue(getEpochTime, nextStatsTime)
       THEN \E online \in BOOLEAN, rd \in StatsReadings :
              LET u == inverterUpdateStatus(online, rd)
              IN  /\ inverterStatus' = u.status
                  /\ energyToday' = u.energyToday
                  /\ mqttOut' = mqttOut \o u.out
                  /\ lastReads' = u.got
                  /\ lastProbe' = (IF online THEN "online" ELSE "offline")
                  /\ nextStatsTime' = Advance(nextStatsTime, UPDATE_PERIOD_STATS)
                  /\ events' = events \o <<"statsWindow", "inverterUpdateStatus">> \o u.issued
       ELSE /\ events' = events \o <<"statsWindow">>
            /\ UNCHANGED <<inverterStatus, energyToday, mqttOut, lastReads, lastProbe,
                           nextStatsTime>>
    /\ pc' = StepAfter("stats")
    /\ webResp' = NoResp
    /\ wait' = NoWait
    /\ UNCHANGED <<delayVars, mqtt, now, staticsInit, nextUpdateTime, bootEpoch, firstPass,
                   pvOutputUpdatePending, energyTodayLastUpdate,
                   energyTodayLastPublished, lastEnergyRead, lastSend, starting,
                   bootSeen>>

(* the pending report *)
SendStep ==
    /\ pc = "send"
    /\ IF pvOutputUpdatePending
       THEN \E wifiConnected \in BOOLEAN :
            IF wifiConnected
            THEN \E http \in HttpOutcomes :
                   LET r == pvOutputSend(http)
                   IN  /\ energyTodayLastPublished' = r.published
                       /\ mqttOut' = mqttOut \o r.log
                       /\ events' = events \o <<"pvOutputSend">> \o r.issued
                       /\ lastSend' = [ kind |-> "sent", begin |-> http.begin,
                                        code |-> http.code, ret |-> r.ret,
                                        post |-> PostData ]
                       /\ IF r.ret
                          THEN /\ pvOutputUpdatePending' = FALSE
                               /\ pc' = StepAfter("send")
                               /\ wait' = NoWait
                               /\ UNCHANGED delayVars
                          ELSE /\ runLoopDelay(SendRetryMs, StepAfter("send"))
                               /\ UNCHANGED pvOutputUpdatePending
            ELSE /\ lastSend' = [NoSend EXCEPT !.kind = "nolink"]
                 /\ pc' = StepAfter("send")
                 /\ wait' = NoWait
                 /\ UNCHANGED <<energyTodayLastPublished, mqttOut, events,
                                pvOutputUpdatePending, delayVars>>
       ELSE /\ lastSend' = [NoSend EXCEPT !.kind = "idle"]
            /\ pc' = StepAfter("send")
            /\ wait' = NoWait
            /\ UNCHANGED <<energyTodayLastPublished, mqttOut, events,
                           pvOutputUpdatePending, delayVars>>
    /\ webResp' = NoResp
    /\ UNCHANGED <<mqtt, now, schedVars, energyToday, energyTodayLastUpdate,
                   inverterStatus, lastReads, lastProbe, lastEnergyRead, starting,
                   bootSeen>>

---------------------------------------------------------------------------
(* Environment *)

(* the NTP clock has been set *)
NtpSynced == ServerBegun

(* epoch time passes *)
Tick(d) ==
    /\ NtpSynced
    /\ now + d <= MaxEpoch
    /\ now' = now + d
    /\ UNCHANGED <<pc, delayVars, mqtt, schedVars, pvOutputUpdatePending, energyVars,
                   inverterStatus, webResp, passVars, lastSend, starting, wait,
                   bootSeen>>

(* the broker connection is lost *)
MqttDrop ==
    /\ mqtt
    /\ mqtt' = FALSE
    /\ UNCHANGED <<pc, delayVars, now, schedVars, pvOutputUpdatePending, energyVars,
                   inverterStatus, webResp, passVars, lastSend, starting, wait,
                   bootSeen>>

Next ==
    \/ SetupBegin
    \/ SetupStarting
    \/ WaitForWifi
    \/ NtpForceUpdate
    \/ MqttConnectCheck
    \/ RunLoopDelayStep
    \/ RunLoopDelayReturn
    \/ LoopBegin
    \/ EnergyStep
    \/ StatsStep
    \/ SendStep
    \/ \E d \in TickSteps : Tick(d)
    \/ MqttDrop

Spec == Init /\ [][Next]_vars

---------------------------------------------------------------------------
(* Properties *)

Has(seq, x) == \E i \in DOMAIN seq : seq[i] = x

(* the step now ending is loop()'s send step with the HTTP client called *)
Submitted == pc = "send" /\ lastSend'.kind = "sent"

(* C1: a report submission that failed leaves the pending-report flag set
   into the next pass of loop(), which therefore submits again. *)
C1_FailedSendKeepsPending ==
    [][ (pc = "loop_begin" /\ pc' # "loop_begin"
            /\ lastSend.kind = "sent" /\ ~lastSend.ret)
        => pvOutputUpdatePending' ]_vars

(* C2: the pending-report flag, once set, stays set while the link is down:
   a pass whose send step found the wireless link down leaves the flag set
   for the passes that follow. *)
C2_LinkDownKeepsPending ==
    [][ (lastSend.kind = "nolink" /\ pvOutputUpdatePending)
        => pvOutputUpdatePending' ]_vars

(* C3: pvOutputSend succeeds, and stamps the last-published time with the
   current epoch, exactly when the POST returned 200; otherwise it fails and
   the last-published time is unchanged; the energy value and its sample
   time are never changed by it. *)
C3_SuccessIff200 ==
    [][ Submitted =>
          /\ lastSend'.ret <=> (lastSend'.begin /\ lastSend'.code = 200)
          /\ lastSend'.ret =>
                /\ energyTodayLastPublished' = now'
                /\ ~pvOutputUpdatePending'
                /\ pc' = "loop_begin"
          /\ ~lastSend'.ret =>
                /\ energyTodayLastPublished' = energyTodayLastPublished
                /\ pvOutputUpdatePending'
                /\ pc' = "delay" /\ delayLeft' = 1000
          /\ energyToday' = energyToday
          /\ energyTodayLastUpdate' = energyTodayLastUpdate ]_vars

(* a report confirmed later than its reading was sampled *)
C3_Witness ==
    /\ lastSend.kind = "sent" /\ lastSend.ret /\ lastSend.code = 200
    /\ energyTodayLastPublished = now
    /\ energyTodayLastUpdate < energyTodayLastPublished
    /\ ~pvOutputUpdatePending

SomePeriods == {1, 7, 30, 300, 86400}

(* C4: each window's first deadline is floor(epoch / period) * period + period,
   a multiple of the period strictly after the epoch at initialisation, so
   that the first pass, at that epoch, triggers no window; and so for every
   period tried at every epoch the clock shows. *)
C4_FirstDeadline ==
    /\ [][ (~staticsInit /\ staticsInit') =>
             /\ nextUpdateTime' = (now \div 300) * 300 + 300
             /\ nextStatsTime' = (now \div 30) * 30 + 30
             /\ nextUpdateTime' % 300 = 0 /\ nextUpdateTime' > now
             /\ nextStatsTime' % 30 = 0 /\ nextStatsTime' > now ]_vars
    /\ [](\A p \in SomePeriods :
            LET d == InitDeadline(now, p)
            IN  d % p = 0 /\ d > now /\ d - p <= now)
    /\ [](InitDeadline(1000, 300) = 1200 /\ InitDeadline(1000, 30) = 1020)
    /\ []((firstPass /\ now = bootEpoch) =>
            /\ ~Has(events, "inverterSetTime")
            /\ ~Has(events, "inverterUpdateStatus"))

(* the first pass, begun at epoch 1000, has gone through both windows *)
C4_Witness ==
    /\ firstPass /\ pc = "send" /\ now = 1000 /\ bootEpoch = 1000
    /\ nextUpdateTime = 1200 /\ nextStatsTime = 1020
    /\ Has(events, "energyWindow") /\ Has(events, "statsWindow")

(* C5: each deadline stays a multiple of its period; it changes only in its
   own window's step, only when the epoch has reached it, and then by
   exactly one period together with one cycle; a window that is due when
   its step runs always triggers, so a backlog is worked off one period per
   pass. *)
C5_DeadlineAdvance ==
    /\ [](staticsInit => nextUpdateTime % 300 = 0 /\ nextStatsTime % 30 = 0)
    /\ [][ staticsInit =>
             /\ (nextUpdateTime' # nextUpdateTime) =>
                   /\ pc = "energy" /\ now >= nextUpdateTime
                   /\ nextUpdateTime' = nextUpdateTime + 300
             /\ (nextStatsTime' # nextStatsTime) =>
                   /\ pc = "stats" /\ now >= nextStatsTime
                   /\ nextStatsTime' = nextStatsTime + 30
             /\ (pc = "energy" /\ pc' # pc) =>
                   /\ (now >= nextUpdateTime) <=> (nextUpdateTime' = nextUpdateTime + 300)
                   /\ (now >= nextUpdateTime) <=> Has(events', "inverterSetTime")
             /\ (pc = "stats" /\ pc' # pc) =>
                   /\ (now >= nextStatsTime) <=> (nextStatsTime' = nextStatsTime + 30)
                   /\ (now >= nextStatsTime) <=> Has(events', "inverterUpdateStatus") ]_vars

(* a backlog: the stats window has just triggered and is still two periods
   behind, the energy window has triggered and is still due *)
C5_Witness ==
    /\ pc = "send"
    /\ Has(events, "inverterUpdateStatus") /\ now >= nextStatsTime + 60
    /\ Has(events, "inverterSetTime") /\ now >= nextUpdateTime

StepMarkers == {"runLoopHandlers", "energyWindow", "statsWindow", "pvOutputSend"}

IsStepMarker(e) == e \in StepMarkers

PassOrder == <<"runLoopHandlers", "energyWindow", "statsWindow", "pvOutputSend">>

(* the steps a pass has taken so far, without the device transactions *)
StepsTaken == SelectSeq(events, IsStepMarker)

(* C6: within a pass the handlers are pumped first, then the energy window
   is evaluated once, then the stats window once, and only then is the
   pending report submitted, at most once. *)
C6_PassOrder ==
    staticsInit =>
        /\ Len(StepsTaken) <= 4
        /\ StepsTaken = SubSeq(PassOrder, 1, Len(StepsTaken))
        /\ (pc = "energy") => Len(StepsTaken) = 1
        /\ (pc = "stats") => Len(StepsTaken) = 2
        /\ (pc = "send") => Len(StepsTaken) = 3

(* a pass in which both cycles ran and the report was then submitted *)
C6_Witness ==
    /\ staticsInit
    /\ StepsTaken = PassOrder
    /\ Has(events, "inverterSetTime") /\ Has(events, "inverterUpdateStatus")

(* C7: a stats cycle whose liveness probe reports offline issues no energy
   or analog read, leaves the snapshot as it was and publishes nothing. *)
C7_OfflineSkips ==
    [][ (pc = "stats" /\ lastProbe' = "offline") =>
          /\ inverterStatus' = inverterStatus
          /\ mqttOut' = mqttOut
          /\ events' = events \o <<"statsWindow", "inverterUpdateStatus", "readState">>
          /\ lastReads' = NoReads ]_vars

(* an offline cycle has run over a snapshot an earlier cycle built *)
C7_Witness ==
    /\ pc = "send" /\ lastProbe = "offline"
    /\ inverterStatus # << >>
    /\ Member(inverterStatus, "last_update") # PrintfLu(now)
    /\ mqtt

(* C8: the snapshot an online stats cycle builds holds, as total input
   power, the sum of the two string powers of that cycle if both reads
   succeeded, and the missing marker if either failed. *)
C8_TotalPower ==
    (lastProbe = "online") =>
        Member(inverterStatus, "p_in") =
            (IF lastReads.pIn1.ok /\ lastReads.pIn2.ok
             THEN Printf2f(lastReads.pIn1.v + lastReads.pIn2.v)
             ELSE "NaN")

(* one string power was read, the other failed *)
C8_Witness ==
    /\ lastProbe = "online"
    /\ lastReads.pIn1.ok /\ ~lastReads.pIn2.ok
    /\ Member(inverterStatus, "p_in") = "NaN"
    /\ Member(inverterStatus, "p_in_1") = "1500.01"

(* the text of a field of the snapshot, given the read that feeds it *)
FieldIsValueOrMissing(key, r, text) ==
    Member(inverterStatus, key) = (IF r.ok THEN text ELSE "NaN")

(* C9: every numeric field of the snapshot an online stats cycle builds is
   the value read in that cycle or, if its read failed, the missing marker,
   which no successfully read value can equal. *)
C9_ValueOrMissing ==
    (lastProbe = "online") =>
        /\ FieldIsValueOrMissing("energy_today", lastReads.eToday, PrintfLu(lastReads.eToday.v))
        /\ FieldIsValueOrMissing("energy_total", lastReads.eTotal, PrintfLu(lastReads.eTotal.v))
        /\ FieldIsValueOrMissing("p_in_1", lastReads.pIn1, Printf2f(lastReads.pIn1.v))
        /\ FieldIsValueOrMissing("p_in_2", lastReads.pIn2, Printf2f(lastReads.pIn2.v))
        /\ FieldIsValueOrMissing("grid_voltage", lastReads.vGrid, Printf2f(lastReads.vGrid.v))
        /\ FieldIsValueOrMissing("grid_frequency", lastReads.fGrid, Printf2f(lastReads.fGrid.v))
        /\ FieldIsValueOrMissing("temp_inverter", lastReads.tInv, Printf2f(lastReads.tInv.v))
        /\ FieldIsValueOrMissing("temp_booster", lastReads.tBoost, Printf2f(lastReads.tBoost.v))

(* C10: an online stats cycle that ends with the broker not connected
   publishes neither POWER nor STAT, attempts no connect and goes straight
   on to the send step; the snapshot is replaced by the cycle's result, and
   a GET answered by the handlers returns the current snapshot. *)
C10_DisconnectedSkipsPublish ==
    [][ /\ (pc = "stats" /\ lastProbe' = "online" /\ ~mqtt) =>
              /\ mqttOut' = mqttOut
              /\ ~Has(events', "pubSubClient.connect")
              /\ pc' = "send" /\ delayLeft' = 0
              /\ ~mqtt'
              /\ inverterStatus' = FormatStatus(lastReads')
              /\ Member(inverterStatus', "last_update") = PrintfLu(now)
        /\ (webResp'.code = 200) => (webResp'.body = JsonText(inverterStatus')) ]_vars

(* nothing was published by an online cycle, whose snapshot is in place *)
C10_Witness ==
    /\ pc = "send" /\ lastProbe = "online" /\ ~mqtt
    /\ mqttOut = << >>
    /\ inverterStatus = FormatStatus(lastReads)
    /\ Member(inverterStatus, "p_in") # "NaN"

IsDiagnostic(e) == e = "mqttLog"

IsLogPublish(m) == m[1] = "tele/abb/LOG"

(* the diagnostics this pass has produced, and those it has published *)
DiagnosticsProduced == Len(SelectSeq(events, IsDiagnostic))

DiagnosticsPublished == Len(SelectSeq(mqttOut, IsLogPublish))

(* C11 as stated: a diagnostic is never dropped because the broker was
   disconnected when it was produced: every diagnostic a pass has produced
   has been published. *)
C11_DiagnosticNeverDropped == DiagnosticsProduced = DiagnosticsPublished

(* C11 amended: a diagnostic is published only if the broker is connected
   at the moment it is produced; otherwise it is dropped, and in either
   case no connect is attempted, the connection state is left alone and
   the broker retry wait is not entered. *)
C11_DiagnosticIffConnected ==
    [][ (Len(SelectSeq(events', IsDiagnostic)) > DiagnosticsProduced) =>
          /\ mqtt => /\ Len(mqttOut') = Len(mqttOut) + 1
                     /\ IsLogPublish(mqttOut'[Len(mqttOut')])
          /\ ~mqtt => mqttOut' = mqttOut
          /\ ~Has(events', "pubSubClient.connect")
          /\ mqtt' = mqtt
          /\ ~(pc' = "delay" /\ delayLeft' = 60000) ]_vars

(* a diagnostic was produced with the broker disconnected, and is gone *)
C11_Witness ==
    /\ pc = "stats" /\ ~mqtt
    /\ Has(events, "mqttLog") /\ pvOutputUpdatePending
    /\ mqttOut = << >>

BootOrder == <<"WL_CONNECTED", "forceUpdate", "mqttConnected">>

InSetup ==
    \/ pc \in {"setup", "setup_starting", "setup_wifi", "setup_ntp", "setup_mqtt"}
    \/ pc = "delay" /\ delayRet \in {"setup_wifi", "setup_mqtt"}

(* C12: the first pass of loop() comes only after the wireless link was
   seen connected, then a time sync succeeded, then the broker was seen
   connected; a failed wireless check waits 500 ms and checks again, a
   failed broker connect waits 60 s and checks again, and neither ever
   gives up. *)
C12_BlockingBootstrap ==
    /\ [](bootSeen = SubSeq(BootOrder, 1, Len(bootSeen)))
    /\ [](~InSetup => bootSeen = BootOrder)
    /\ []((staticsInit \/ pc \in {"energy", "stats", "send"}) => bootSeen = BootOrder)
    /\ [][ (pc = "setup_wifi" /\ bootSeen' = bootSeen) =>
              (pc' = "delay" /\ delayLeft' = 500 /\ delayRet' = "setup_wifi") ]_vars
    /\ [][ (pc = "setup_mqtt" /\ ~mqtt /\ ~mqtt' /\ now' = now) =>
              (pc' = "delay" /\ delayLeft' = 60000 /\ delayRet' = "setup_mqtt") ]_vars
    /\ [][ (pc = "setup_ntp" /\ bootSeen' = bootSeen) => pc' = "setup_ntp" ]_vars

(* the first pass is under way after the three observations *)
C12_Witness ==
    /\ firstPass /\ pc = "energy"
    /\ bootSeen = BootOrder
    /\ Has(events, "runLoopHandlers")

(* a timed wait has run its time *)
WaitElapsed ==
    \/ wait.how = "delay"
    \/ wait.how = "runLoopDelay" /\ pc # "delay"

(* C13 as stated: no timed wait of the program passes without the handlers
   being pumped. *)
C13_EveryWaitPumped == WaitElapsed => wait.pumped

(* C13 amended: every wait made with runLoopDelay (the wireless retry of
   500 ms, the broker retry of 60 s, the 2 s that end setup, the 1 s after
   a failed report) has pumped the handlers when it ends; the 1 s startup
   delays and the 500 ms time-sync retry are plain delays, which pump
   nothing. *)
C13_RunLoopDelayPumps ==
    /\ (wait.how = "runLoopDelay" /\ pc # "delay") => wait.pumped
    /\ (wait.how = "runLoopDelay") => wait.ms \in {500, 60000, 2000, 1000}
    /\ (wait.how = "delay") =>
          /\ ~wait.pumped
          /\ \/ wait.ms = 1000 /\ pc = "setup_starting"
             \/ wait.ms = 500 /\ pc = "setup_ntp"
    /\ (pc = "delay") => wait.how = "runLoopDelay"

(* the wait after a failed report has ended, the handlers having run *)
C13_Witness ==
    /\ pc = "loop_begin"
    /\ wait = [how |-> "runLoopDelay", ms |-> 1000, pumped |-> TRUE]
    /\ lastSend.kind = "sent" /\ ~lastSend.ret

(* C14: an energy-report cycle whose today's-energy read fails leaves the
   stored value, its sample time and the pending flag as they were; one
   whose read succeeds stores the value and the current epoch together and
   sets the flag. *)
C14_LastGoodValue ==
    [][ (pc = "energy" /\ lastEnergyRead' # NoEnergyRead) =>
          IF lastEnergyRead'.ok
          THEN /\ energyToday' = lastEnergyRead'.v
               /\ energyTodayLastUpdate' = now
               /\ pvOutputUpdatePending'
          ELSE /\ energyToday' = energyToday
               /\ energyTodayLastUpdate' = energyTodayLastUpdate
               /\ pvOutputUpdatePending' = pvOutputUpdatePending
               /\ ~pvOutputUpdatePending' ]_vars

(* a failed read has left an earlier cycle's value and sample time in place *)
C14_Witness ==
    /\ pc = "stats"
    /\ lastEnergyRead = [ok |-> FALSE, v |-> 7777]
    /\ energyToday = 4200 /\ energyTodayLastUpdate = 1250 /\ now = 1500
    /\ ~pvOutputUpdatePending

SnapshotKeys ==
    <<"last_update", "energy_today", "energy_total", "last_pvoutput_read",
      "last_pvoutput_sent", "p_in", "p_in_1", "p_in_2", "grid_voltage",
      "grid_frequency", "temp_inverter", "temp_booster">>

(* C15: a GET on / is answered 200 with the text of the current snapshot,
   which is the empty object until an online stats cycle completes and
   after that always the complete result of the latest one: the snapshot
   changes only in an online stats cycle, as a whole; any other method is
   answered 404. *)
C15_GetReturnsSnapshot ==
    /\ [][ (webResp'.method = "GET") =>
              webResp' = [ method |-> "GET", code |-> 200,
                           type |-> "application/json",
                           body |-> JsonText(inverterStatus') ] ]_vars
    /\ [][ (webResp'.method \notin {"", "GET"}) =>
              (webResp'.code = 404 /\ webResp'.body = "Not Found\r\n") ]_vars
    /\ [](\/ inverterStatus = << >> /\ JsonText(inverterStatus) = "{}"
          \/ /\ Len(inverterStatus) = 12
             /\ \A i \in 1..12 : inverterStatus[i][1] = SnapshotKeys[i]
                                   /\ inverterStatus[i][2] # "")
    /\ [][ (inverterStatus' # inverterStatus) =>
              /\ pc = "stats" /\ lastProbe' = "online"
              /\ inverterStatus' = FormatStatus(lastReads') ]_vars

(* a GET answered during the wait after a failed report, with the broker
   gone: the body is the latest snapshot *)
C15_Witness ==
    /\ pc = "delay" /\ ~mqtt
    /\ lastSend.kind = "sent" /\ ~lastSend.ret
    /\ webResp.method = "GET" /\ webResp.code = 200
    /\ webResp.body # "{}" /\ webResp.body = JsonText(inverterStatus)

(* C16: an online stats cycle issues all eight reads, in the order today's
   energy, lifetime energy, string power 1 and 2, grid voltage, grid
   frequency, inverter and booster temperature, whichever of them fail; an
   energy-report cycle issues the clock read, the clock write and the
   today's-energy read whatever the first two return. *)
C16_NoAbortOnFailedRead ==
    /\ [][ (pc = "stats" /\ lastProbe' = "online") =>
              events' = events \o
                 << "statsWindow", "inverterUpdateStatus", "readState",
                    "readCumulatedEnergy(DAILY)", "readCumulatedEnergy(LIFETIME)",
                    "readDSP(PIN1)", "readDSP(PIN2)", "readDSP(GRID_VOLTAGE)",
                    "readDSP(FREQUENCY)", "readDSP(INVERTER_TEMPERATURE)",
                    "readDSP(BOOSTER_TEMPERATURE)" >> ]_vars
    /\ [][ (pc = "energy" /\ pc' # pc /\ now >= nextUpdateTime) =>
              /\ Len(events') >= Len(events) + 6
              /\ SubSeq(events', Len(events) + 1, Len(events) + 6) =
                    << "energyWindow", "inverterSetTime", "readTimeDate",
                       "writeTimeDate", "inverterReadTodayEnergy",
                       "readCumulatedEnergy(DAILY)" >> ]_vars

(* an online cycle in which every read failed has issued the last read *)
C16_Witness ==
    /\ pc = "send" /\ lastProbe = "online"
    /\ \A k \in ReadKeys : ~lastReads[k].ok
    /\ Has(events, "readDSP(BOOSTER_TEMPERATURE)")
    /\ Has(events, "readTimeDate")

(* C17: a stats cycle, online or offline, leaves the stored energy value,
   its sample time, the last-published time and the pending flag alone; an
   energy-report cycle leaves the snapshot alone. *)
C17_DisjointCadences ==
    /\ [][ (pc = "stats") =>
              /\ energyToday' = energyToday
              /\ energyTodayLastUpdate' = energyTodayLastUpdate
              /\ energyTodayLastPublished' = energyTodayLastPublished
              /\ pvOutputUpdatePending' = pvOutputUpdatePending ]_vars
    /\ [][ (pc = "energy") => inverterStatus' = inverterStatus ]_vars

(* both cycles ran in one pass; the stats cycle read another today's energy
   than the one stored *)
C17_Witness ==
    /\ pc = "send" /\ lastProbe = "online"
    /\ lastEnergyRead # NoEnergyRead /\ lastEnergyRead.ok
    /\ lastReads.eToday.ok /\ lastReads.eToday.v # energyToday
    /\ energyToday = 4200 /\ pvOutputUpdatePending

(* C18: a window's deadline moves on by one period at every trigger,
   whatever the cycle gives: when the today's-energy read fails, and when
   the inverter is offline. *)
C18_AdvanceWhateverOutcome ==
    /\ [][ (pc = "energy" /\ lastEnergyRead' # NoEnergyRead /\ ~lastEnergyRead'.ok) =>
              /\ now >= nextUpdateTime
              /\ nextUpdateTime' = nextUpdateTime + 300
              /\ pc' = "stats" ]_vars
    /\ [][ (pc = "stats" /\ lastProbe' = "offline") =>
              /\ now >= nextStatsTime
              /\ nextStatsTime' = nextStatsTime + 30
              /\ pc' = "send" ]_vars

(* both cycles of a pass failed and both deadlines have moved on *)
C18_Witness ==
    /\ pc = "send" /\ lastProbe = "offline"
    /\ lastEnergyRead = [ok |-> FALSE, v |-> 7777]
    /\ now = 1250 /\ nextUpdateTime = 1500 /\ nextStatsTime = 1050

(* C19: an online stats cycle with the broker connected publishes STAT with
   the snapshot it has just built, preceded by POWER with the total input
   power if and only if both string reads succeeded. *)
C19_PowerThenStat ==
    [][ (pc = "stats" /\ lastProbe' = "online" /\ mqtt) =>
          mqttOut' = mqttOut
             \o (IF lastReads'.pIn1.ok /\ lastReads'.pIn2.ok
                 THEN << <<"tele/abb/POWER", Member(inverterStatus', "p_in")>> >>
                 ELSE << >>)
             \o << <<"tele/abb/STAT", JsonText(inverterStatus')>> >> ]_vars

(* both messages were published, POWER first *)
C19_Witness ==
    /\ pc = "send" /\ lastProbe = "online" /\ mqtt
    /\ Len(mqttOut) >= 2
    /\ mqttOut[Len(mqttOut) - 1] = <<"tele/abb/POWER", "2140.13">>
    /\ mqttOut[Len(mqttOut)][1] = "tele/abb/STAT"

=============================================================================
